---- MODULE Spec2Model ----
(***************************************************************************)
(* Model of the post-processing pipeline of the company-data extractor:    *)
(* split_paragraphs, normalize_date_string and dedupe_records of           *)
(* backend/utils.py, and _coerce_record, _extract_from_paragraph and       *)
(* extract_company_info of backend/agent_workflow.py.                      *)
(*                                                                         *)
(* A Python str is modelled as a sequence of one-character strings, so     *)
(* that strip, casefold, comparison, regular-expression matching and       *)
(* formatting are computed character by character.                         *)
(***************************************************************************)
EXTENDS Integers, Sequences, FiniteSets, TLC

VARIABLES pc,          \* position of the running operation
          text,        \* input of split_paragraphs / extract_company_info
          paragraphs,  \* result of split_paragraphs
          dateIn,      \* how the date input was written (form and fields)
          raw,         \* input of normalize_date_string
          norm,        \* result of normalize_date_string
          rawFounders, \* the oracle's "founders" value handed to _coerce_record
          coerced,     \* the record returned by _coerce_record
          records,     \* input of dedupe_records
          out,         \* result of dedupe_records
          out2,        \* result of dedupe_records applied to its own output
          idx,         \* extract_company_info: index of the next paragraph
          results      \* extract_company_info: the flattened raw records

vars == <<pc, text, paragraphs, dateIn, raw, norm, rawFounders, coerced,
          records, out, out2, idx, results>>

(***************************************************************************)
(* Characters and strings                                                  *)
(***************************************************************************)
NL == "\n"

\* the letter sharp s (U+00DF), written in ASCII here
SharpS == "sz"

\* str.isspace / the regular expression class \s, on the characters in use
IsSpace(c) == c \in {" ", NL, "\t"}

IsDigit(c) == c \in {"0", "1", "2", "3", "4", "5", "6", "7", "8", "9"}

Upper == <<"A", "B", "C", "D", "E", "F", "G", "H", "I", "J", "K", "L", "M",
           "N", "O", "P", "Q", "R", "S", "T", "U", "V", "W", "X", "Y", "Z">>

Lower == <<"a", "b", "c", "d", "e", "f", "g", "h", "i", "j", "k", "l", "m",
           "n", "o", "p", "q", "r", "s", "t", "u", "v", "w", "x", "y", "z">>

Digit == <<"0", "1", "2", "3", "4", "5", "6", "7", "8", "9">>

IndexOf(seq, c) == CHOOSE i \in 1..Len(seq) : seq[i] = c

IsUpper(c) == \E i \in 1..Len(Upper) : Upper[i] = c

IsLower(c) == \E i \in 1..Len(Lower) : Lower[i] = c

\* the regular expression class [A-Za-z]
IsAlpha(c) == IsUpper(c) \/ IsLower(c)

\* the code point of a character, which str comparison goes by
CodePoint(c) ==
    CASE c = "\t" -> 9
      [] c = NL -> 10
      [] c = " " -> 32
      [] c = "\"" -> 34
      [] c = "'" -> 39
      [] c = "," -> 44
      [] c = "-" -> 45
      [] c = "." -> 46
      [] c = "/" -> 47
      [] IsDigit(c) -> 47 + IndexOf(Digit, c)
      [] IsUpper(c) -> 64 + IndexOf(Upper, c)
      [] c = "[" -> 91
      [] c = "]" -> 93
      [] IsLower(c) -> 96 + IndexOf(Lower, c)
      [] c = SharpS -> 223

\* s < t for two str values: lexicographic by code point
RECURSIVE StrLess(_, _)
StrLess(s, t) ==
    IF t = <<>> THEN FALSE
    ELSE IF s = <<>> THEN TRUE
    ELSE IF s[1] # t[1] THEN CodePoint(s[1]) < CodePoint(t[1])
    ELSE StrLess(Tail(s), Tail(t))

\* str.strip(): leading and trailing whitespace removed
RECURSIVE LStrip(_)
LStrip(s) == IF s # <<>> /\ IsSpace(s[1]) THEN LStrip(Tail(s)) ELSE s

RECURSIVE RStrip(_)
RStrip(s) ==
    IF s # <<>> /\ IsSpace(s[Len(s)]) THEN RStrip(SubSeq(s, 1, Len(s) - 1)) ELSE s

Strip(s) == RStrip(LStrip(s))

\* str.lower() of one character
LowerChar(c) == IF IsUpper(c) THEN Lower[IndexOf(Upper, c)] ELSE c

StrLower(s) == [i \in 1..Len(s) |-> LowerChar(s[i])]

\* str.casefold(): lower-casing, except that sharp s folds to "ss"
RECURSIVE Casefold(_)
Casefold(s) ==
    IF s = <<>> THEN <<>>
    ELSE (IF s[1] = SharpS THEN <<"s", "s">> ELSE <<LowerChar(s[1])>>)
         \o Casefold(Tail(s))

\* the concatenation of a sequence of strings
RECURSIVE Concat(_)
Concat(ss) == IF ss = <<>> THEN <<>> ELSE ss[1] \o Concat(Tail(ss))

\* the tuples over S of length at most n
RECURSIVE SeqsUpTo(_, _)
SeqsUpTo(S, n) ==
    IF n = 0 THEN {<<>>}
    ELSE LET shorter == SeqsUpTo(S, n - 1)
         IN  shorter \cup {Append(q, x) : q \in {p \in shorter : Len(p) = n - 1}, x \in S}

\* [x for x in seq if x]: the non-empty elements of a list, in order
RECURSIVE Truthy(_)
Truthy(seq) ==
    IF seq = <<>> THEN <<>>
    ELSE (IF seq[1] # <<>> THEN <<seq[1]>> ELSE <<>>) \o Truthy(Tail(seq))

(***************************************************************************)
(* split_paragraphs                                                        *)
(***************************************************************************)
\* the separator taken as \n\n+, which a line holding only spaces does not match
ParagraphSepNoBlank(s, i) ==
    IF i < Len(s) /\ s[i] = NL /\ s[i + 1] = NL
    THEN CHOOSE e \in (i + 1)..Len(s) :
            /\ \A j \in (i + 1)..e : s[j] = NL
            /\ (e = Len(s) \/ s[e + 1] # NL)
    ELSE 0

\* One match of \n\s*\n+ starting at position i of s: 0 when there is none,
\* else the position of its last character.  \s* is greedy: it takes the
\* longest whitespace run after which a newline still follows; \n+ then
\* takes every newline that follows.
ParagraphSep(s, i) ==
    IF i > Len(s) \/ s[i] # NL THEN 0
    ELSE LET K == {k \in i..(Len(s) - 1) :
                      /\ \A j \in (i + 1)..k : IsSpace(s[j])
                      /\ s[k + 1] = NL}
         IN  IF K = {} THEN 0
             ELSE LET k == CHOOSE x \in K : \A y \in K : y <= x
                  IN  CHOOSE e \in (k + 1)..Len(s) :
                         /\ \A j \in (k + 1)..e : s[j] = NL
                         /\ (e = Len(s) \/ s[e + 1] # NL)

\* re.split(r"\n\s*\n+", s): the pieces between the leftmost matches,
\* scanning from position i with the current piece starting at start
RECURSIVE ReSplit(_, _, _)
ReSplit(s, start, i) ==
    IF i > Len(s) THEN <<SubSeq(s, start, Len(s))>>
    ELSE LET e == ParagraphSep(s, i)
         IN  IF e = 0 THEN ReSplit(s, start, i + 1)
             ELSE <<SubSeq(s, start, i - 1)>> \o ReSplit(s, e + 1, e + 1)

\* [x.strip() for x in pieces if x.strip()]
StripNonEmpty(pieces) == Truthy([i \in 1..Len(pieces) |-> Strip(pieces[i])])

split_paragraphs(t) == StripNonEmpty(ReSplit(Strip(t), 1, 1))

(***************************************************************************)
(* Date normalization                                                      *)
(***************************************************************************)
\* MONTHS.get(t): the number of a month name, 0 standing for None (both are
\* false in the callers' "if y and mo" tests and never reach _fmt_date)
MONTHS(t) ==
    CASE t = <<"j", "a", "n">> -> 1
      [] t = <<"j", "a", "n", "u", "a", "r", "y">> -> 1
      [] t = <<"f", "e", "b">> -> 2
      [] t = <<"f", "e", "b", "r", "u", "a", "r", "y">> -> 2
      [] t = <<"m", "a", "r">> -> 3
      [] t = <<"m", "a", "r", "c", "h">> -> 3
      [] t = <<"a", "p", "r">> -> 4
      [] t = <<"a", "p", "r", "i", "l">> -> 4
      [] t = <<"m", "a", "y">> -> 5
      [] t = <<"j", "u", "n">> -> 6
      [] t = <<"j", "u", "n", "e">> -> 6
      [] t = <<"j", "u", "l">> -> 7
      [] t = <<"j", "u", "l", "y">> -> 7
      [] t = <<"a", "u", "g">> -> 8
      [] t = <<"a", "u", "g", "u", "s", "t">> -> 8
      [] t = <<"s", "e", "p">> -> 9
      [] t = <<"s", "e", "p", "t">> -> 9
      [] t = <<"s", "e", "p", "t", "e", "m", "b", "e", "r">> -> 9
      [] t = <<"o", "c", "t">> -> 10
      [] t = <<"o", "c", "t", "o", "b", "e", "r">> -> 10
      [] t = <<"n", "o", "v">> -> 11
      [] t = <<"n", "o", "v", "e", "m", "b", "e", "r">> -> 11
      [] t = <<"d", "e", "c">> -> 12
      [] t = <<"d", "e", "c", "e", "m", "b", "e", "r">> -> 12
      [] OTHER -> 0

\* int(x) of a string of digits
RECURSIVE _safe_int(_)
_safe_int(x) ==
    IF x = <<>> THEN 0
    ELSE 10 * _safe_int(SubSeq(x, 1, Len(x) - 1)) + (IndexOf(Digit, x[Len(x)]) - 1)

\* the decimal digits of n >= 0
RECURSIVE Decimal(_)
Decimal(n) ==
    IF n < 10 THEN <<Digit[n + 1]>> ELSE Decimal(n \div 10) \o <<Digit[(n % 10) + 1]>>

\* format(n, "0<w>d"): zero-padded on the left to at least w digits
RECURSIVE ZeroPad(_, _)
ZeroPad(ds, w) == IF Len(ds) >= w THEN ds ELSE ZeroPad(<<"0">> \o ds, w)

Min2(a, b) == IF a < b THEN a ELSE b

Max2(a, b) == IF a > b THEN a ELSE b

\* "x or 1" for an int
OrOne(x) == IF x = 0 THEN 1 ELSE x

_fmt_date_unclamped(y, m, d) ==
    ZeroPad(Decimal(y), 4) \o <<"-">> \o ZeroPad(Decimal(m), 2)
        \o <<"-">> \o ZeroPad(Decimal(d), 2)

_fmt_date(y, m, d) ==
    LET mm == Max2(1, Min2(12, OrOne(m)))
        dd == Max2(1, Min2(28, OrOne(d)))
    IN  ZeroPad(Decimal(y), 4) \o <<"-">> \o ZeroPad(Decimal(mm), 2)
            \o <<"-">> \o ZeroPad(Decimal(dd), 2)

_month_to_num(token) == MONTHS(StrLower(Strip(token)))

\* ---- regular expressions: a pattern is a sequence of items, each a
\* character class repeated lo..hi times (hi = -1: unbounded)
InClass(c, cls) ==
    CASE cls = "s" -> IsSpace(c)        \* \s
      [] cls = "d" -> IsDigit(c)        \* \d
      [] cls = "a" -> IsAlpha(c)        \* [A-Za-z]
      [] cls = "sep" -> c \in {"-", "/"}  \* [-/]
      [] cls = "comma" -> c = ","

Rep(cls, lo, hi) == [cls |-> cls, lo |-> lo, hi |-> hi]

Star(cls) == Rep(cls, 0, -1)

Plus(cls) == Rep(cls, 1, -1)

\* the ways items k.. of a pattern match s from position i to its end: each
\* way is the tuple of the lengths the items take
RECURSIVE MatchFrom(_, _, _, _)
MatchFrom(items, k, s, i) ==
    IF k > Len(items) THEN (IF i = Len(s) + 1 THEN {<<>>} ELSE {})
    ELSE LET it == items[k]
             left == Len(s) - i + 1
             top == IF it.hi = -1 THEN left ELSE Min2(it.hi, left)
             ns == {n \in it.lo..top : \A j \in i..(i + n - 1) : InClass(s[j], it.cls)}
         IN  UNION {{<<n>> \o r : r \in MatchFrom(items, k + 1, s, i + n)} : n \in ns}

\* re.match(r"^...$", s) on a stripped s: the match, or <<>> for no match.
\* In each pattern used here adjacent items have disjoint classes or fixed
\* lengths, so a string matches in at most one way.
ReMatch(items, s) ==
    LET ways == MatchFrom(items, 1, s, 1)
    IN  IF ways = {} THEN <<>> ELSE CHOOSE w \in ways : TRUE

RECURSIVE SumTo(_, _)
SumTo(lens, k) == IF k = 0 THEN 0 ELSE lens[k] + SumTo(lens, k - 1)

\* the text item k of a match took
Group(s, lens, k) == SubSeq(s, SumTo(lens, k - 1) + 1, SumTo(lens, k))

\* ^\s*(\d{4})[-/](\d{1,2})[-/](\d{1,2})\s*$
IsoPattern ==
    <<Star("s"), Rep("d", 4, 4), Rep("sep", 1, 1), Rep("d", 1, 2),
      Rep("sep", 1, 1), Rep("d", 1, 2), Star("s")>>

\* ^\s*(\d{4})[-/](\d{1,2})\s*$
YearMonthPattern ==
    <<Star("s"), Rep("d", 4, 4), Rep("sep", 1, 1), Rep("d", 1, 2), Star("s")>>

\* ^\s*([A-Za-z]+)\s+(\d{4})\s*$
MonthYearPattern == <<Star("s"), Plus("a"), Plus("s"), Rep("d", 4, 4), Star("s")>>

\* ^\s*(\d{4})\s+([A-Za-z]+)\s*$
YearMonthNamePattern == <<Star("s"), Rep("d", 4, 4), Plus("s"), Plus("a"), Star("s")>>

\* ^\s*([A-Za-z]+)\s+(\d{1,2}),?\s+(\d{4})\s*$
MonthDayYearPattern ==
    <<Star("s"), Plus("a"), Plus("s"), Rep("d", 1, 2), Rep("comma", 0, 1),
      Plus("s"), Rep("d", 4, 4), Star("s")>>

\* ^\s*(\d{1,2})\s+([A-Za-z]+),?\s+(\d{4})\s*$
DayMonthYearPattern ==
    <<Star("s"), Rep("d", 1, 2), Plus("s"), Plus("a"), Rep("comma", 0, 1),
      Plus("s"), Rep("d", 4, 4), Star("s")>>

\* ^\s*(\d{4})\s*$
YearOnlyPattern == <<Star("s"), Rep("d", 4, 4), Star("s")>>

\* what a parser returns for "no date": None
None == <<"None">>

_try_iso(s) ==
    LET m == ReMatch(IsoPattern, s)
    IN  IF m # <<>> /\ _safe_int(Group(s, m, 2)) # 0
        THEN _fmt_date(_safe_int(Group(s, m, 2)), _safe_int(Group(s, m, 4)),
                       _safe_int(Group(s, m, 6)))
        ELSE None

_try_year_month(s) ==
    LET m == ReMatch(YearMonthPattern, s)
        m2 == ReMatch(MonthYearPattern, s)
        m3 == ReMatch(YearMonthNamePattern, s)
    IN  IF m # <<>> /\ _safe_int(Group(s, m, 2)) # 0
        THEN _fmt_date(_safe_int(Group(s, m, 2)), _safe_int(Group(s, m, 4)), 1)
        ELSE IF /\ m2 # <<>>
                /\ _safe_int(Group(s, m2, 4)) # 0
                /\ _month_to_num(Group(s, m2, 2)) # 0
        THEN _fmt_date(_safe_int(Group(s, m2, 4)), _month_to_num(Group(s, m2, 2)), 1)
        ELSE IF /\ m3 # <<>>
                /\ _safe_int(Group(s, m3, 2)) # 0
                /\ _month_to_num(Group(s, m3, 4)) # 0
        THEN _fmt_date(_safe_int(Group(s, m3, 2)), _month_to_num(Group(s, m3, 4)), 1)
        ELSE None

_try_month_day_year(s) ==
    LET m == ReMatch(MonthDayYearPattern, s)
        m2 == ReMatch(DayMonthYearPattern, s)
    IN  IF /\ m # <<>>
           /\ _safe_int(Group(s, m, 7)) # 0
           /\ _month_to_num(Group(s, m, 2)) # 0
           /\ _safe_int(Group(s, m, 4)) # 0
        THEN _fmt_date(_safe_int(Group(s, m, 7)), _month_to_num(Group(s, m, 2)),
                       _safe_int(Group(s, m, 4)))
        ELSE IF /\ m2 # <<>>
                /\ _safe_int(Group(s, m2, 7)) # 0
                /\ _month_to_num(Group(s, m2, 4)) # 0
                /\ _safe_int(Group(s, m2, 2)) # 0
        THEN _fmt_date(_safe_int(Group(s, m2, 7)), _month_to_num(Group(s, m2, 4)),
                       _safe_int(Group(s, m2, 2)))
        ELSE None

_try_year_only(s) ==
    LET m == ReMatch(YearOnlyPattern, s)
    IN  IF m # <<>> /\ _safe_int(Group(s, m, 2)) # 0
        THEN _fmt_date(_safe_int(Group(s, m, 2)), 1, 1)
        ELSE None

\* re.search(r"(19|20)\d{2}", s): the positions where a match starts
YearRuns(s) ==
    {i \in 1..(Len(s) - 3) :
        /\ SubSeq(s, i, i + 1) \in {<<"1", "9">>, <<"2", "0">>}
        /\ IsDigit(s[i + 2])
        /\ IsDigit(s[i + 3])}

normalize_date_string(r) ==
    IF r = <<>> THEN <<>>
    ELSE LET s == Strip(r)
         IN  IF _try_iso(s) # None THEN _try_iso(s)
             ELSE IF _try_month_day_year(s) # None THEN _try_month_day_year(s)
             ELSE IF _try_year_month(s) # None THEN _try_year_month(s)
             ELSE IF _try_year_only(s) # None THEN _try_year_only(s)
             ELSE IF YearRuns(s) # {}
             THEN LET i == CHOOSE x \in YearRuns(s) : \A y \in YearRuns(s) : x <= y
                  IN  _fmt_date(_safe_int(SubSeq(s, i, i + 3)), 1, 1)
             ELSE <<>>

(***************************************************************************)
(* Specification SpecDate: normalize_date_string on bounded inputs         *)
(***************************************************************************)
Years == {<<"1", "9", "9", "0">>, <<"2", "0", "0", "5">>,
          <<"0", "0", "0", "0">>, <<"1", "8", "0", "0">>}

\* month and day numerals as the oracle may write them
Numerals == {<<"0">>, <<"3">>, <<"0", "5">>, <<"1", "2">>, <<"1", "3">>,
             <<"2", "9">>, <<"3", "1">>}

MonthWords == {<<"M", "a", "r", "c", "h">>, <<"m", "a", "r">>,
               <<"S", "E", "P", "T">>, <<"m", "a", "y">>, <<"F", "o", "o">>}

Separators == {<<"-">>, <<"/">>}

\* free text: no date, a year inside a sentence, a date followed by a letter
FreeTexts == {<<>>, <<"u", "n", "k">>, <<"c", " ", "t", "h", "e", "n">>,
              <<"i", "n", " ", "2", "0", "0", "5", " ", "x">>,
              <<"1", "8", "0", "0", "s">>, <<"x", "1", "9", "9", "0", "5">>,
              <<"1", "9", "9", "0", "-", "3", "-", "5", "x">>,
              <<"3", ",", " ", "1", "9">>}

ExactForms == {"iso", "mdy", "dmy", "ym", "my", "yname", "y"}

DateIn(form, y, m, d, mon, sep1, sep2, comma, lead, trail, body) ==
    [form |-> form, y |-> y, m |-> m, d |-> d, mon |-> mon, sep1 |-> sep1,
     sep2 |-> sep2, comma |-> comma, lead |-> lead, trail |-> trail, body |-> body]

Leads == {<<>>, <<" ">>}

Trails == {<<>>, <<" ">>, <<NL>>}

Commas == {<<>>, <<",">>}

DateInputs ==
    UNION {
      {DateIn("iso", y, m, d, <<>>, s1, s2, <<>>, l, t, <<>>) :
          y \in Years, m \in Numerals, d \in Numerals, s1 \in Separators,
          s2 \in Separators, l \in Leads, t \in Trails},
      {DateIn("mdy", y, <<>>, d, w, <<>>, <<>>, c, l, t, <<>>) :
          y \in Years, d \in Numerals, w \in MonthWords, c \in Commas,
          l \in Leads, t \in Trails},
      {DateIn("dmy", y, <<>>, d, w, <<>>, <<>>, c, l, t, <<>>) :
          y \in Years, d \in Numerals, w \in MonthWords, c \in Commas,
          l \in Leads, t \in Trails},
      {DateIn("ym", y, m, <<>>, <<>>, s1, <<>>, <<>>, l, t, <<>>) :
          y \in Years, m \in Numerals, s1 \in Separators, l \in Leads, t \in Trails},
      {DateIn("my", y, <<>>, <<>>, w, <<>>, <<>>, <<>>, l, t, <<>>) :
          y \in Years, w \in MonthWords, l \in Leads, t \in Trails},
      {DateIn("yname", y, <<>>, <<>>, w, <<>>, <<>>, <<>>, l, t, <<>>) :
          y \in Years, w \in MonthWords, l \in Leads, t \in Trails},
      {DateIn("y", y, <<>>, <<>>, <<>>, <<>>, <<>>, <<>>, l, t, <<>>) :
          y \in Years, l \in Leads, t \in Trails},
      {DateIn("text", <<>>, <<>>, <<>>, <<>>, <<>>, <<>>, <<>>, l, t, b) :
          b \in FreeTexts, l \in Leads, t \in Trails}
    }

\* the string a date input stands for
Render(i) ==
    i.lead \o
    (CASE i.form = "iso" -> i.y \o i.sep1 \o i.m \o i.sep2 \o i.d
       [] i.form = "mdy" -> i.mon \o <<" ">> \o i.d \o i.comma \o <<" ">> \o i.y
       [] i.form = "dmy" -> i.d \o <<" ">> \o i.mon \o i.comma \o <<" ">> \o i.y
       [] i.form = "ym" -> i.y \o i.sep1 \o i.m
       [] i.form = "my" -> i.mon \o <<" ">> \o i.y
       [] i.form = "yname" -> i.y \o <<" ">> \o i.mon
       [] i.form = "y" -> i.y
       [] i.form = "text" -> i.body)
    \o i.trail

NoDateIn == DateIn("none", <<>>, <<>>, <<>>, <<>>, <<>>, <<>>, <<>>, <<>>, <<>>, <<>>)

InitDate ==
    /\ pc = "start"
    /\ dateIn \in DateInputs
    /\ raw = Render(dateIn)
    /\ norm = <<>>
    /\ text = <<>>
    /\ paragraphs = <<>>
    /\ rawFounders = <<>>
    /\ coerced = <<>>
    /\ records = <<>>
    /\ out = <<>>
    /\ out2 = <<>>
    /\ idx = 0
    /\ results = <<>>

\* one call of normalize_date_string(raw)
NormalizeDate ==
    /\ pc = "start"
    /\ norm' = normalize_date_string(raw)
    /\ pc' = "done"
    /\ UNCHANGED <<text, paragraphs, dateIn, raw, rawFounders, coerced, records,
                   out, out2, idx, results>>

NextDate == NormalizeDate

SpecDate == InitDate /\ [][NextDate]_vars

\* a string of the form YYYY-MM-DD with month 01..12 and day 01..28
DigitValue(c) == CHOOSE v \in 0..9 : Digit[v + 1] = c

IsCanonicalDate(s) ==
    /\ Len(s) = 10
    /\ \A i \in {1, 2, 3, 4, 6, 7, 9, 10} : IsDigit(s[i])
    /\ s[5] = "-"
    /\ s[8] = "-"
    /\ 10 * DigitValue(s[6]) + DigitValue(s[7]) \in 1..12
    /\ 10 * DigitValue(s[9]) + DigitValue(s[10]) \in 1..28

\* the whole (stripped) string has the shape of one of the exact forms
MatchesAForm(s) ==
    \E p \in {IsoPattern, MonthDayYearPattern, DayMonthYearPattern, YearMonthPattern,
              MonthYearPattern, YearMonthNamePattern, YearOnlyPattern} :
        ReMatch(p, s) # <<>>

\* a run of four digits starting with 19 or 20 somewhere in s
HasYearRun(s) ==
    \E i \in 1..(Len(s) - 3) :
        /\ \/ (s[i] = "1" /\ s[i + 1] = "9")
           \/ (s[i] = "2" /\ s[i + 1] = "0")
        /\ IsDigit(s[i + 2])
        /\ IsDigit(s[i + 3])

\* C5: normalize_date_string returns the empty string or a canonical
\* YYYY-MM-DD date with month in 01..12 and day in 01..28, and returns the
\* empty string when no form matches the whole string and the string has no
\* four-digit run starting with 19 or 20.
C5_CanonicalOrEmpty ==
    pc = "done" =>
        /\ norm = <<>> \/ IsCanonicalDate(norm)
        /\ (~MatchesAForm(Strip(raw)) /\ ~HasYearRun(raw)) => norm = <<>>

\* C5 witness: a date whose month 13 and day 31 were clamped
C5_Witness ==
    /\ pc = "done"
    /\ dateIn.form = "iso"
    /\ dateIn.m = <<"1", "3">>
    /\ dateIn.d = <<"3", "1">>
    /\ norm = <<"1", "9", "9", "0", "-", "1", "2", "-", "2", "8">>

\* the number n as two digits
TwoDigits(n) == <<Digit[(n \div 10) + 1], Digit[(n % 10) + 1]>>

\* a numeral's value clamped to 1..top, 1 when absent or zero
Clamped(numeral, top) ==
    LET v == IF numeral = <<>> THEN 0
             ELSE IF Len(numeral) = 1 THEN DigitValue(numeral[1])
             ELSE 10 * DigitValue(numeral[1]) + DigitValue(numeral[2])
    IN  IF v = 0 THEN 1 ELSE IF v > top THEN top ELSE v

\* the month number a month word names, 0 when it names none
MonthOfWord(w) ==
    CASE w \in {<<"M", "a", "r", "c", "h">>, <<"m", "a", "r">>} -> 3
      [] w = <<"S", "E", "P", "T">> -> 9
      [] w = <<"m", "a", "y">> -> 5
      [] OTHER -> 0

\* the date the exact forms stand for: year digits as written, month and day
\* clamped
ExpectedDate(i) ==
    i.y \o <<"-">>
    \o TwoDigits(IF i.mon # <<>> THEN MonthOfWord(i.mon) ELSE Clamped(i.m, 12))
    \o <<"-">> \o TwoDigits(Clamped(i.d, 28))

\* C10: an input that as a whole is one of the exact forms, with a
\* recognised month, is normalized to its year, its month clamped to 1..12
\* and its day clamped to 1..28 (1 when absent or zero).
C10_ExactFormsClamped ==
    (/\ pc = "done"
     /\ dateIn.form \in ExactForms
     /\ dateIn.mon # <<>> => MonthOfWord(dateIn.mon) # 0)
        => norm = ExpectedDate(dateIn)

(***************************************************************************)
(* Specification SpecSplit: split_paragraphs on bounded texts              *)
(***************************************************************************)
MaxTextLen == 7

TextChars == {"a", " ", NL}

InitSplit ==
    /\ pc = "start"
    /\ text \in SeqsUpTo(TextChars, MaxTextLen)
    /\ paragraphs = <<>>
    /\ dateIn = NoDateIn
    /\ raw = <<>>
    /\ norm = <<>>
    /\ rawFounders = <<>>
    /\ coerced = <<>>
    /\ records = <<>>
    /\ out = <<>>
    /\ out2 = <<>>
    /\ idx = 0
    /\ results = <<>>

\* one call of split_paragraphs(text)
SplitParagraphs ==
    /\ pc = "start"
    /\ paragraphs' = split_paragraphs(text)
    /\ pc' = "done"
    /\ UNCHANGED <<text, dateIn, raw, norm, rawFounders, coerced, records, out,
                   out2, idx, results>>

NextSplit == SplitParagraphs

SpecSplit == InitSplit /\ [][NextSplit]_vars

\* the newline-separated lines of t
RECURSIVE LinesOf(_, _)
LinesOf(t, cur) ==
    IF t = <<>> THEN <<cur>>
    ELSE IF t[1] = NL THEN <<cur>> \o LinesOf(Tail(t), <<>>)
    ELSE LinesOf(Tail(t), Append(cur, t[1]))

\* a blank line contains only whitespace
IsBlankLine(l) == \A i \in 1..Len(l) : IsSpace(l[i])

\* the lines of a run joined by newlines
RECURSIVE JoinLines(_)
JoinLines(ls) ==
    IF Len(ls) = 1 THEN ls[1] ELSE ls[1] \o <<NL>> \o JoinLines(Tail(ls))

\* the maximal runs of consecutive non-blank lines, each joined and trimmed
RECURSIVE RunsOf(_, _)
RunsOf(ls, run) ==
    IF ls = <<>> THEN (IF run = <<>> THEN <<>> ELSE <<Strip(JoinLines(run))>>)
    ELSE IF IsBlankLine(ls[1])
         THEN (IF run = <<>> THEN <<>> ELSE <<Strip(JoinLines(run))>>)
              \o RunsOf(Tail(ls), <<>>)
         ELSE RunsOf(Tail(ls), Append(run, ls[1]))

\* C9: split_paragraphs returns, in source order, exactly the maximal runs of
\* consecutive non-blank lines, trimmed: no block is empty, none has leading
\* or trailing whitespace, none contains a blank line, and an empty or
\* whitespace-only text gives the empty list.
C9_MaximalRuns ==
    pc = "done" =>
        /\ paragraphs = RunsOf(LinesOf(text, <<>>), <<>>)
        /\ \A i \in 1..Len(paragraphs) :
              /\ paragraphs[i] # <<>>
              /\ ~IsSpace(paragraphs[i][1])
              /\ ~IsSpace(paragraphs[i][Len(paragraphs[i])])
              /\ LET ls == LinesOf(paragraphs[i], <<>>)
                 IN  \A k \in 1..Len(ls) : ~IsBlankLine(ls[k])
        /\ IsBlankLine(text) => paragraphs = <<>>

\* C9 witness: two paragraphs separated by a line holding only a space, the
\* second one a run of two lines
C9_Witness ==
    /\ pc = "done"
    /\ text = <<"a", NL, " ", NL, "a", NL, "a">>
    /\ paragraphs = << <<"a">>, <<"a", NL, "a">> >>

(***************************************************************************)
(* dedupe_records                                                          *)
(***************************************************************************)
\* A record is a dict with the keys company_name, founding_date (both str)
\* and founders (a list).  A founders element is a str, or JsonNumber: a
\* non-zero number the oracle put where a name belongs (true in "if f", and
\* without a casefold method).
JsonNumber == <<"<number>">>

Rec(name, date, founders) ==
    [company_name |-> name, founding_date |-> date, founders |-> founders]

\* an element's casefold() raises AttributeError
CasefoldRaises(fs) == \E i \in 1..Len(fs) : fs[i] = JsonNumber

\* set(x.casefold() for x in fs)
FoldedSet(fs) == {Casefold(fs[i]) : i \in 1..Len(fs)}

\* the loop of lines 180-183: append each founder not yet seen
RECURSIVE MergeLoop(_, _, _)
MergeLoop(merged, seen, founders) ==
    IF founders = <<>> THEN merged
    ELSE IF Casefold(founders[1]) \notin seen
         THEN MergeLoop(Append(merged, founders[1]),
                        seen \cup {Casefold(founders[1])}, Tail(founders))
         ELSE MergeLoop(merged, seen, Tail(founders))

MergeFounders(existing, founders) == MergeLoop(existing, FoldedSet(existing), founders)

\* min(a, b) of two str
StrMin(a, b) == IF StrLess(b, a) THEN b ELSE a

MergeDateKeepExisting(existing_date, date) ==
    IF existing_date # <<>> THEN existing_date ELSE date

\* lines 185-189: the earliest non-empty date
MergeDate(existing_date, date) ==
    IF existing_date # <<>> /\ date # <<>> THEN StrMin(existing_date, date)
    ELSE IF date # <<>> /\ existing_date = <<>> THEN date
    ELSE existing_date

NewEntryNoFounders(name, date, founders) == Rec(name, date, <<>>)

\* lines 172-176: the entry a first record of a company makes
NewEntry(name, date, founders) == Rec(name, date, founders)

\* the position in the dict (in insertion order) of the entry with this key,
\* 0 when there is none
EntryAt(by_name, key) ==
    IF \E i \in 1..Len(by_name) : Casefold(by_name[i].company_name) = key
    THEN CHOOSE i \in 1..Len(by_name) : Casefold(by_name[i].company_name) = key
    ELSE 0

\* the loop of lines 162-189 over the records left; st is the dict so far,
\* as the list of its values in insertion order, and whether an exception
\* was raised
RECURSIVE DedupeLoop(_, _)
DedupeLoop(by_name, rs) ==
    IF rs = <<>> THEN [raised |-> FALSE, by_name |-> by_name]
    ELSE LET r == rs[1]
             name == Strip(r.company_name)
             key == Casefold(name)
             founders == Truthy(r.founders)
             date == Strip(r.founding_date)
             at == EntryAt(by_name, key)
         IN  IF name = <<>> THEN DedupeLoop(by_name, Tail(rs))
             ELSE IF at = 0
                  THEN DedupeLoop(Append(by_name, NewEntry(name, date, founders)),
                                  Tail(rs))
             ELSE IF CasefoldRaises(by_name[at].founders) \/ CasefoldRaises(founders)
                  THEN [raised |-> TRUE, by_name |-> by_name]
             ELSE DedupeLoop(
                    [by_name EXCEPT ![at] =
                        Rec(@.company_name,
                            MergeDate(@.founding_date, date),
                            MergeFounders(@.founders, founders))],
                    Tail(rs))

SortKeyAsWritten(x) == x.company_name

\* line 193: the sort key, lambda x: x["company_name"].casefold()
SortKey(x) == Casefold(x.company_name)

\* list.sort(key=...), as an insertion sort: ascending by key, and stable
RECURSIVE InsertSorted(_, _)
InsertSorted(sorted, e) ==
    IF sorted = <<>> THEN <<e>>
    ELSE IF StrLess(SortKey(e), SortKey(sorted[1])) THEN <<e>> \o sorted
    ELSE <<sorted[1]>> \o InsertSorted(Tail(sorted), e)

RECURSIVE SortByName(_)
SortByName(values) ==
    IF values = <<>> THEN <<>>
    ELSE InsertSorted(SortByName(SubSeq(values, 1, Len(values) - 1)),
                      values[Len(values)])

\* dedupe_records(rs): whether it raised, and else the list it returns
dedupe_records(rs) ==
    LET st == DedupeLoop(<<>>, rs)
    IN  IF st.raised THEN [raised |-> TRUE, out |-> <<>>]
        ELSE [raised |-> FALSE, out |-> SortByName(st.by_name)]

(***************************************************************************)
(* Specification SpecDedupe: dedupe_records on bounded lists of records    *)
(***************************************************************************)
MaxRecords == 3

DateA == <<"1", "9", "9", "0", "-", "0", "1", "-", "0", "1">>

DateB == <<"1", "9", "9", "0", "-", "0", "3", "-", "0", "5">>

\* two spellings of one company, the second with trailing whitespace
CompanyNames == {<<"A">>, <<"a", " ">>}

\* a founder listed twice with different casing; an empty name between two
FounderLists == {<< <<"J">>, <<"j">> >>, << <<"j">>, <<>>, <<"K">> >>}

\* the two spellings with every date and founders list, a second company
\* (sorted after the first, though "B" < "a" by code point), a record with
\* a blank name and one without founders
RecordUniverse ==
    {Rec(n, d, f) : n \in CompanyNames, d \in {<<>>, DateA, DateB}, f \in FounderLists}
    \cup {Rec(<<"B">>, d, f) : d \in {<<>>, DateA}, f \in FounderLists}
    \cup {Rec(<<" ">>, DateA, << <<"K">>, <<>> >>), Rec(<<"A">>, DateB, <<>>)}

InitDedupe ==
    /\ pc = "start"
    /\ records \in SeqsUpTo(RecordUniverse, MaxRecords)
    /\ out = <<>>
    /\ out2 = <<>>
    /\ text = <<>>
    /\ paragraphs = <<>>
    /\ dateIn = NoDateIn
    /\ raw = <<>>
    /\ norm = <<>>
    /\ rawFounders = <<>>
    /\ coerced = <<>>
    /\ idx = 0
    /\ results = <<>>

\* one call of dedupe_records(records)
Dedupe ==
    /\ pc = "start"
    /\ LET res == dedupe_records(records)
       IN  /\ pc' = IF res.raised THEN "raised" ELSE "done"
           /\ out' = res.out
    /\ UNCHANGED <<text, paragraphs, dateIn, raw, norm, rawFounders, coerced,
                   records, out2, idx, results>>

\* the output fed back: dedupe_records(out)
Refeed ==
    /\ pc = "done"
    /\ LET res == dedupe_records(out)
       IN  /\ pc' = IF res.raised THEN "raised" ELSE "refed"
           /\ out2' = res.out
    /\ UNCHANGED <<text, paragraphs, dateIn, raw, norm, rawFounders, coerced,
                   records, out, idx, results>>

NextDedupe == Dedupe \/ Refeed

SpecDedupe == InitDedupe /\ [][NextDedupe]_vars

Returned == pc \in {"done", "refed"}

\* the key of a record: its trimmed company name under case folding
KeyOf(r) == Casefold(Strip(r.company_name))

\* the positions of the input records of a key, none for the empty key
GroupOf(rs, key) == {i \in 1..Len(rs) : Strip(rs[i].company_name) # <<>> /\ KeyOf(rs[i]) = key}

First(S) == CHOOSE i \in S : \A j \in S : i <= j

\* C6: dedupe_records returns one record per distinct key: the keys of the
\* output are strictly ascending, their set is the set of keys of the inputs
\* with a non-empty trimmed name, and each company_name is the trimmed name,
\* in its original casing, of the first input record with that key.
C6_OnePerKeySorted ==
    Returned =>
        /\ \A i \in 1..(Len(out) - 1) : StrLess(KeyOf(out[i]), KeyOf(out[i + 1]))
        /\ {KeyOf(out[i]) : i \in 1..Len(out)}
              = {KeyOf(records[i]) :
                    i \in {j \in 1..Len(records) : Strip(records[j].company_name) # <<>>}}
        /\ \A i \in 1..Len(out) :
              out[i].company_name
                 = Strip(records[First(GroupOf(records, KeyOf(out[i])))].company_name)

\* C6 witness: a blank-named record is dropped, two spellings of one company
\* are merged under the first spelling, and the output order differs from
\* the input order
C6_Witness ==
    /\ pc = "done"
    /\ Len(records) = 3
    /\ records[1].company_name = <<"B">>
    /\ records[2].company_name = <<"a", " ">>
    /\ records[3].company_name = <<"A">>
    /\ Len(out) = 2
    /\ out[1].company_name = <<"a">>
    /\ out[2].company_name = <<"B">>

\* the non-empty founders of the records at positions from..Len(rs) that
\* belong to the key, in input order
RECURSIVE GroupFounders(_, _, _)
GroupFounders(rs, key, from) ==
    IF from > Len(rs) THEN <<>>
    ELSE (IF from \in GroupOf(rs, key) THEN Truthy(rs[from].founders) ELSE <<>>)
         \o GroupFounders(rs, key, from + 1)

\* the names of a list that no earlier name equals under case folding
RECURSIVE FirstOccurrences(_, _)
FirstOccurrences(names, i) ==
    IF i > Len(names) THEN <<>>
    ELSE (IF \E j \in 1..(i - 1) : Casefold(names[j]) = Casefold(names[i])
          THEN <<>> ELSE <<names[i]>>)
         \o FirstOccurrences(names, i + 1)

\* C1: every returned founders list has no two names equal under case
\* folding, and holds each case-insensitively distinct founder of the
\* group's records once, in order of first occurrence and with the casing of
\* that occurrence; also when one input record lists a founder twice.
C1_FoundersDistinct ==
    Returned =>
        \A i \in 1..Len(out) :
            /\ \A a, b \in 1..Len(out[i].founders) :
                  a # b => Casefold(out[i].founders[a]) # Casefold(out[i].founders[b])
            /\ out[i].founders
                  = FirstOccurrences(GroupFounders(records, KeyOf(out[i]), 1), 1)

\* the records of rs in the order p
Permuted(rs, p) == [i \in 1..Len(rs) |-> rs[p[i]]]

\* two results agree but for the casing and order of founder names
SameButCasing(o1, o2) ==
    /\ Len(o1) = Len(o2)
    /\ \A i \in 1..Len(o1) :
          /\ KeyOf(o1[i]) = KeyOf(o2[i])
          /\ o1[i].founding_date = o2[i].founding_date
          /\ Len(o1[i].founders) = Len(o2[i].founders)
          /\ FoldedSet(o1[i].founders) = FoldedSet(o2[i].founders)

\* C3: for any two orderings of the same records dedupe_records returns the
\* same company keys, the same date for each company, and founders lists of
\* the same length with the same names after case folding.
C3_OrderInsensitive ==
    Returned =>
        \A p \in Permutations(1..Len(records)) :
            SameButCasing(out, dedupe_records(Permuted(records, p)).out)

\* C7: the merged founding_date is empty exactly when every record of the
\* group has an empty date, and otherwise is the smallest non-empty date of
\* the group, wherever the empty-dated records stand.
C7_EarliestDate ==
    Returned =>
        \A i \in 1..Len(out) :
            LET dates == {records[j].founding_date : j \in GroupOf(records, KeyOf(out[i]))}
                        \ {<<>>}
            IN  /\ out[i].founding_date = <<>> <=> dates = {}
                /\ dates # {} =>
                      /\ out[i].founding_date \in dates
                      /\ \A d \in dates : ~StrLess(d, out[i].founding_date)

\* C7 witness: a group whose first record has no date, whose second has the
\* later date and whose third has the earlier one
C7_Witness ==
    /\ pc = "done"
    /\ Len(records) = 3
    /\ Len(out) = 1
    /\ records[1].founding_date = <<>>
    /\ records[2].founding_date = DateB
    /\ records[3].founding_date = DateA
    /\ out[1].founding_date = DateA

\* C8: feeding the output of dedupe_records back into it returns the same
\* records in the same order.
C8_Idempotent == pc = "refed" => out2 = out

\* C8 witness: the output fed back had merged founders of two records and
\* holds two companies
C8_Witness ==
    /\ pc = "refed"
    /\ Len(records) = 3
    /\ Len(out) = 2
    /\ \E i \in 1..2 : Len(out[i].founders) = 3
    /\ out2 = out

(***************************************************************************)
(* _coerce_record                                                          *)
(***************************************************************************)
\* A JSON value of the oracle's answer: t is "str" (v its characters),
\* "list" (v its elements: str, or JsonNumber), "num" (a non-zero number)
\* or "null" (null, or the key is missing).
JsonStr(s) == [t |-> "str", v |-> s]

JsonList(l) == [t |-> "list", v |-> l]

JsonNum == [t |-> "num", v |-> <<>>]

JsonNull == [t |-> "null", v |-> <<>>]

\* str.replace("'", '"')
ReplaceQuotes(s) == [i \in 1..Len(s) |-> IF s[i] = "'" THEN "\"" ELSE s[i]]

\* what json.loads gives for text that is no JSON document
NoParse == <<"<JSONDecodeError>">>

\* the position of the first double quote of s at or after i, 0 for none
NextQuote(s, i) ==
    IF \E j \in i..Len(s) : s[j] = "\""
    THEN CHOOSE j \in i..Len(s) : s[j] = "\"" /\ \A k \in i..(j - 1) : s[k] # "\""
    ELSE 0

\* the elements of a JSON array of strings, read from position i of its
\* inside s: expect is "first" after the opening bracket, "value" after a
\* comma and "comma" after a value.  (Texts with brackets, digits or
\* backslashes inside the outer brackets are not among the inputs.)
RECURSIVE JsonElements(_, _, _, _)
JsonElements(s, i, expect, acc) ==
    IF i > Len(s) THEN (IF expect = "value" THEN NoParse ELSE acc)
    ELSE IF s[i] \in {" ", NL, "\t"} THEN JsonElements(s, i + 1, expect, acc)
    ELSE IF expect = "comma"
         THEN (IF s[i] = "," THEN JsonElements(s, i + 1, "value", acc) ELSE NoParse)
    ELSE IF s[i] = "\"" /\ NextQuote(s, i + 1) # 0
         THEN LET j == NextQuote(s, i + 1)
                  str == SubSeq(s, i + 1, j - 1)
              IN  IF \E k \in 1..Len(str) : str[k] \in {NL, "\t"} THEN NoParse
                  ELSE JsonElements(s, j + 1, "comma", Append(acc, str))
    ELSE NoParse

\* json.loads(t) for a t that starts with "[" and ends with "]"
JsonLoads(t) == JsonElements(SubSeq(t, 2, Len(t) - 1), 1, "first", <<>>)

\* s.split(","), reading from the left with the current piece cur
RECURSIVE SplitComma(_, _)
SplitComma(s, cur) ==
    IF s = <<>> THEN <<cur>>
    ELSE IF s[1] = "," THEN <<cur>> \o SplitComma(Tail(s), <<>>)
    ELSE SplitComma(Tail(s), Append(cur, s[1]))

Bracketed(t) == t # <<>> /\ t[1] = "[" /\ t[Len(t)] = "]"

\* lines 77-87: a founders value that is a str, made a list
CoerceFoundersString(founders) ==
    LET t == Strip(founders)
    IN  IF Bracketed(t)
        THEN (IF JsonLoads(ReplaceQuotes(t)) # NoParse
              THEN JsonLoads(ReplaceQuotes(t))
              ELSE <<t>>)
        ELSE StripNonEmpty(SplitComma(t, <<>>))

\* "x or ''" followed by .strip(): raises for a number
StrOrEmptyRaises(x) == x.t \in {"num"} \/ (x.t = "list" /\ x.v # <<>>)

StrOrEmpty(x) == IF x.t = "str" THEN Strip(x.v) ELSE <<>>

\* _coerce_record(d) for a dict d with the values company_name,
\* founding_date and founders: whether it raised, and else the record
_coerce_record(d) ==
    IF StrOrEmptyRaises(d.company_name) \/ StrOrEmptyRaises(d.founding_date)
       \/ d.founders.t = "num"
    THEN [raised |-> TRUE, rec |-> Rec(<<>>, <<>>, <<>>)]
    ELSE LET company == StrOrEmpty(d.company_name)
             raw_date == StrOrEmpty(d.founding_date)
             founders == CASE d.founders.t = "str" /\ d.founders.v # <<>>
                                -> CoerceFoundersString(d.founders.v)
                           [] d.founders.t = "list" -> d.founders.v
                           [] OTHER -> <<>>
         IN  [raised |-> FALSE,
              rec |-> Rec(company, normalize_date_string(raw_date), Truthy(founders))]

(***************************************************************************)
(* Specification SpecCoerce: _coerce_record on a founders string           *)
(***************************************************************************)
MaxTokens == 4

FounderTokens == {<<"'", "A", "'">>, <<"\"", "B", "\"">>, <<"A">>, <<"B">>,
                  <<",">>, <<" ">>, <<"'">>}

FounderStrings ==
    {l \o o \o Concat(ts) \o c \o t :
        l \in {<<>>, <<" ">>}, o \in {<<>>, <<"[">>}, c \in {<<>>, <<"]">>},
        t \in {<<>>, <<" ">>}, ts \in SeqsUpTo(FounderTokens, MaxTokens)}

InitCoerce ==
    /\ pc = "start"
    /\ rawFounders \in FounderStrings
    /\ coerced = Rec(<<>>, <<>>, <<>>)
    /\ text = <<>>
    /\ paragraphs = <<>>
    /\ dateIn = NoDateIn
    /\ raw = <<>>
    /\ norm = <<>>
    /\ records = <<>>
    /\ out = <<>>
    /\ out2 = <<>>
    /\ idx = 0
    /\ results = <<>>

\* one call of _coerce_record on an item whose founders value is a str
CoerceRecord ==
    /\ pc = "start"
    /\ LET res == _coerce_record([company_name |-> JsonStr(<<"A">>),
                                  founding_date |-> JsonStr(<<"1", "9", "9", "0">>),
                                  founders |-> JsonStr(rawFounders)])
       IN  /\ pc' = IF res.raised THEN "raised" ELSE "done"
           /\ coerced' = res.rec
    /\ UNCHANGED <<text, paragraphs, dateIn, raw, norm, rawFounders, records, out,
                   out2, idx, results>>

NextCoerce == CoerceRecord

SpecCoerce == InitCoerce /\ [][NextCoerce]_vars

\* C4: a founders string that parses as a bracketed list literal gives its
\* elements; one that is bracketed but does not parse, or is not bracketed,
\* gives the string split on commas with each piece trimmed; empty strings
\* are removed in all cases.
C4_FoundersStringCoerced ==
    pc = "done" =>
        LET t == Strip(rawFounders)
        IN  coerced.founders
               = IF Bracketed(t) /\ JsonLoads(ReplaceQuotes(t)) # NoParse
                 THEN Truthy(JsonLoads(ReplaceQuotes(t)))
                 ELSE Truthy(StripNonEmpty(SplitComma(t, <<>>)))

(***************************************************************************)
(* _extract_from_paragraph and extract_company_info                        *)
(***************************************************************************)
\* What CHAIN.invoke does for one paragraph: kind "raise" (the call raises),
\* "invalid" (the output is not JSON, so json.loads raises), "notdict" (the
\* JSON document is no object, so out.get raises), or "dict" with the value
\* of its "companies" key: a list of items, <<>> also for a missing key.
Answer(kind, companies) == [kind |-> kind, companies |-> companies]

Item(company, date, founders) ==
    [company_name |-> company, founding_date |-> date, founders |-> founders]

\* [_coerce_record(item) for item in companies]: raises when one item does
RECURSIVE CoerceAll(_)
CoerceAll(companies) ==
    IF companies = <<>> THEN [raised |-> FALSE, recs |-> <<>>]
    ELSE LET head == _coerce_record(companies[1])
             rest == CoerceAll(Tail(companies))
         IN  IF head.raised \/ rest.raised THEN [raised |-> TRUE, recs |-> <<>>]
             ELSE [raised |-> FALSE, recs |-> <<head.rec>> \o rest.recs]

\* [c for c in cleaned if c["company_name"]]
RECURSIVE NamedOnly(_)
NamedOnly(recs) ==
    IF recs = <<>> THEN <<>>
    ELSE (IF recs[1].company_name # <<>> THEN <<recs[1]>> ELSE <<>>)
         \o NamedOnly(Tail(recs))

\* _extract_from_paragraph(paragraph), the oracle answering with answer:
\* every exception raised inside the try block gives the empty list
_extract_from_paragraph(paragraph, answer) ==
    IF Strip(paragraph) = <<>> THEN <<>>
    ELSE IF answer.kind # "dict" THEN <<>>
    ELSE IF CoerceAll(answer.companies).raised THEN <<>>
    ELSE NamedOnly(CoerceAll(answer.companies).recs)

(***************************************************************************)
(* Specification Spec: extract_company_info against an unreliable oracle   *)
(***************************************************************************)
MaxParagraphs == 2

\* a text of n paragraphs separated by a blank line
RECURSIVE TextOf(_)
TextOf(n) ==
    IF n = 0 THEN <<" ">>
    ELSE IF n = 1 THEN <<"a">>
    ELSE TextOf(n - 1) \o <<NL, " ", NL, "a">>

OracleItems ==
    {Item(c, d, f) :
        c \in {JsonStr(<<"A">>), JsonStr(<<"a", " ">>), JsonNull, JsonNum},
        d \in {JsonStr(<<"1", "9", "9", "0">>), JsonNull, JsonNum},
        f \in {JsonList(<< <<"J">> >>), JsonList(<<JsonNumber>>),
               JsonStr(<<"j", ",", "K">>), JsonNull, JsonNum}}

\* items of answers that name two companies
PairItems ==
    {Item(JsonStr(<<"A">>), JsonStr(<<"2", "0", "0", "5">>), JsonList(<< <<"J">> >>)),
     Item(JsonStr(<<"B">>), JsonNull, JsonList(<<JsonNumber>>)),
     Item(JsonNum, JsonNull, JsonNull)}

OracleAnswers ==
    {Answer("raise", <<>>), Answer("invalid", <<>>), Answer("notdict", <<>>),
     Answer("dict", <<>>)}
    \cup {Answer("dict", <<i>>) : i \in OracleItems}
    \cup {Answer("dict", <<i, j>>) : i \in PairItems, j \in PairItems}

Init ==
    /\ pc = "start"
    /\ text \in {TextOf(n) : n \in 0..MaxParagraphs}
    /\ paragraphs = <<>>
    /\ idx = 0
    /\ results = <<>>
    /\ out = <<>>
    /\ out2 = <<>>
    /\ dateIn = NoDateIn
    /\ raw = <<>>
    /\ norm = <<>>
    /\ rawFounders = <<>>
    /\ coerced = <<>>
    /\ records = <<>>

\* line 119: paragraphs = split_paragraphs(text)
SplitText ==
    /\ pc = "start"
    /\ paragraphs' = split_paragraphs(text)
    /\ idx' = 1
    /\ pc' = "extract"
    /\ UNCHANGED <<text, dateIn, raw, norm, rawFounders, coerced, records, out,
                   out2, results>>

\* lines 127-132: the next paragraph's records, whatever the oracle answers,
\* appended to results
ExtractParagraph ==
    /\ pc = "extract"
    /\ idx <= Len(paragraphs)
    /\ \E answer \in OracleAnswers :
          results' = results \o _extract_from_paragraph(paragraphs[idx], answer)
    /\ idx' = idx + 1
    /\ UNCHANGED <<pc, text, paragraphs, dateIn, raw, norm, rawFounders, coerced,
                   records, out, out2>>

\* lines 135-136: results = dedupe_records(results), outside any try block
DedupeResults ==
    /\ pc = "extract"
    /\ idx > Len(paragraphs)
    /\ LET res == dedupe_records(results)
       IN  /\ pc' = IF res.raised THEN "raised" ELSE "done"
           /\ out' = res.out
    /\ UNCHANGED <<text, paragraphs, dateIn, raw, norm, rawFounders, coerced,
                   records, out2, idx, results>>

Next == SplitText \/ ExtractParagraph \/ DedupeResults

Spec == Init /\ [][Next]_vars

\* C2: whatever the oracle answers for a paragraph (the call raises, the
\* output is no valid JSON, a field is missing or wrongly typed),
\* extract_company_info returns normally: no exception escapes from
\* _extract_from_paragraph or from the dedupe_records step.
C2_NoExceptionEscapes == pc # "raised"

====
